---- MODULE Spec2Model ----
(***************************************************************************)
(* Model of DatabaseQuerySuggester.py: the PostgreSQLManager class (its    *)
(* connection and cursor, execute_sql, the two query suggesters and the    *)
(* facade print_query_suggestions) and the read loop of main.              *)
(*                                                                         *)
(* A Python str is a sequence of one-character strings.  Python offsets    *)
(* are kept as "number of characters before the position", so that         *)
(* s[:k] is SubSeq(s, 1, k) and s[k:] is SubSeq(s, k + 1, Len(s)).         *)
(***************************************************************************)
EXTENDS Integers, Sequences, FiniteSets, TLC

VARIABLES
    connection,     \* self.connection: "None", "open" or "closed"
    cursor,         \* self.cursor: "None", "open" or "closed"
    txn,            \* transaction status of the session: "idle", "intrans", "inerror"
    description,    \* self.cursor.description after the last execute
    sql_command,    \* the statement handed to the operation under way
    agg_query,      \* what suggest_aggregate_query returned
    flipped_query,  \* what suggest_flipped_conditions returned
    suggestions,    \* the titles and statements print_query_suggestions printed
    raised,         \* the exception that left the last operation, or "none"
    pc,             \* position of main, or "api" when the class is driven directly
    last,           \* the operation that ran last
    log,            \* driver calls made on the cursor and the connection, in order
    op,             \* match.group(0) of the flip_operator call looked at
    once,           \* flip_operator of op
    twice,          \* flip_operator of once
    closes          \* close_connection calls since the manager was made or last connected

vars == <<connection, cursor, txn, description, sql_command, agg_query,
          flipped_query, suggestions, raised, pc, last, log, op, once, twice, closes>>

\* Python's None, told apart from every str (a str holds one-character strings).
None == <<"None">>

\* cursor.description when it is None, told apart from every sequence of columns
NoDescription == << <<None, 0>> >>

(***************************************************************************)
(* Strings                                                                 *)
(***************************************************************************)
LowerCase == <<"a","b","c","d","e","f","g","h","i","j","k","l","m",
               "n","o","p","q","r","s","t","u","v","w","x","y","z">>
UpperCase == <<"A","B","C","D","E","F","G","H","I","J","K","L","M",
               "N","O","P","Q","R","S","T","U","V","W","X","Y","Z">>
Digits == {"0","1","2","3","4","5","6","7","8","9"}

Range(s) == {s[i] : i \in 1..Len(s)}

\* str.upper() of one character, and the case folding of re.IGNORECASE
UpperOf == [c \in Range(LowerCase) |-> UpperCase[CHOOSE i \in 1..26 : LowerCase[i] = c]]

Upper(c) == IF c \in DOMAIN UpperOf THEN UpperOf[c] ELSE c

LowerOf == [c \in Range(UpperCase) |-> LowerCase[CHOOSE i \in 1..26 : UpperCase[i] = c]]

\* str.lower()
Lower(s) == [i \in 1..Len(s) |-> IF s[i] \in DOMAIN LowerOf THEN LowerOf[s[i]] ELSE s[i]]

\* \s, and the characters str.strip() removes
IsSpace(c) == c \in {" ", "\n", "\t"}

\* \w
WordChars == Range(LowerCase) \cup Range(UpperCase) \cup Digits \cup {"_"}

IsWord(c) == c \in WordChars

\* s[k:]
From(s, k) == SubSeq(s, k + 1, Len(s))

\* \b at offset k: exactly one of the characters around the offset is a word character
Boundary(s, k) ==
    LET before == k >= 1 /\ k <= Len(s) /\ IsWord(s[k])
        after  == k + 1 >= 1 /\ k + 1 <= Len(s) /\ IsWord(s[k + 1])
    IN  before # after

\* the keyword w (upper case) stands at offset k of s, whatever the case of s
KeywordAt(s, k, w) ==
    /\ k + Len(w) <= Len(s)
    /\ \A i \in 1..Len(w) : Upper(s[k + i]) = w[i]

\* \bw\b at offset k
WholeWordAt(s, k, w) ==
    /\ KeywordAt(s, k, w)
    /\ Boundary(s, k)
    /\ Boundary(s, k + Len(w))

\* 'w' in s.upper()
Contains(s, w) == \E k \in 0..Len(s) : KeywordAt(s, k, w)

\* s.upper().strip().startswith(w)
RECURSIVE LStrip(_)
LStrip(s) == IF s # <<>> /\ IsSpace(s[1]) THEN LStrip(Tail(s)) ELSE s

RECURSIVE RStrip(_)
RStrip(s) ==
    IF s # <<>> /\ IsSpace(s[Len(s)]) THEN RStrip(SubSeq(s, 1, Len(s) - 1)) ELSE s

\* str.strip()
Strip(s) == RStrip(LStrip(s))

StartsWith(s, w) == KeywordAt(s, 0, w)

RECURSIVE Flatten(_)
Flatten(ss) == IF ss = <<>> THEN <<>> ELSE Head(ss) \o Flatten(Tail(ss))

Min(S) == CHOOSE x \in S : \A y \in S : x <= y

\* the element of the one-element set S; {e : x \in {d}} gives x the value of d
\* once, where LET would work d out again at each use
The(S) == CHOOSE x \in S : TRUE

kwSELECT  == <<"S","E","L","E","C","T">>
kwFROM    == <<"F","R","O","M">>
kwWHERE   == <<"W","H","E","R","E">>
kwGROUPBY == <<"G","R","O","U","P"," ","B","Y">>
kwORDERBY == <<"O","R","D","E","R"," ","B","Y">>
kwLIMIT   == <<"L","I","M","I","T">>
kwCOUNT   == <<"C","O","U","N","T">>
kwSUM     == <<"S","U","M">>
kwAVG     == <<"A","V","G">>
kwMIN     == <<"M","I","N">>
kwMAX     == <<"M","A","X">>

(***************************************************************************)
(* suggest_flipped_conditions                                              *)
(***************************************************************************)
\* a pattern that tries the one-character operators first
OperatorPatternShortFirst ==
    << <<">">>, <<"<">>, <<"=">>, <<">","=">>, <<"<","=">>, <<"<",">">>, <<"!","=">> >>

\* the alternation (>=|<=|<>|!=|>|<|=), in the order the pattern tries it
OperatorPattern ==
    << <<">","=">>, <<"<","=">>, <<"<",">">>, <<"!","=">>, <<">">>, <<"<">>, <<"=">> >>

\* flip_map with the entry of '<' mistyped
flip_map_wrong ==
    [o \in Range(OperatorPattern) |->
        CASE o = <<">","=">> -> <<"<">>
          [] o = <<"<","=">> -> <<">">>
          [] o = <<"<",">">> -> <<"=">>
          [] o = <<"!","=">> -> <<"=">>
          [] o = <<">">>     -> <<"<","=">>
          [] o = <<"<">>     -> <<">">>
          [] o = <<"=">>     -> <<"<",">">>]

flip_map ==
    [o \in Range(OperatorPattern) |->
        CASE o = <<">","=">> -> <<"<">>
          [] o = <<"<","=">> -> <<">">>
          [] o = <<"<",">">> -> <<"=">>
          [] o = <<"!","=">> -> <<"=">>
          [] o = <<">">>     -> <<"<","=">>
          [] o = <<"<">>     -> <<">","=">>
          [] o = <<"=">>     -> <<"<",">">>]

\* flip_map.get(op, op)
flip_operator(o) == IF o \in DOMAIN flip_map THEN flip_map[o] ELSE o

\* what the pattern matches at offset k of w: the first alternative that fits, or <<>>
OperatorAt(w, k) ==
    LET fits == {i \in 1..Len(OperatorPattern) :
                    /\ k + Len(OperatorPattern[i]) <= Len(w)
                    /\ SubSeq(w, k + 1, k + Len(OperatorPattern[i])) = OperatorPattern[i]}
    IN  IF fits = {} THEN <<>> ELSE OperatorPattern[Min(fits)]

\* re.sub(pattern, flip_operator, w) from offset k on: left to right, no overlap
RECURSIVE FlipFrom(_, _)
FlipFrom(w, k) ==
    IF k >= Len(w) THEN <<>>
    ELSE LET m == OperatorAt(w, k)
         IN  IF m = <<>>
             THEN <<w[k + 1]>> \o FlipFrom(w, k + 1)
             ELSE flip_operator(m) \o FlipFrom(w, k + Len(m))

\* the offsets at which re.sub finds a match in w, from offset k on
RECURSIVE MatchOffsets(_, _)
MatchOffsets(w, k) ==
    IF k >= Len(w) THEN {}
    ELSE LET m == OperatorAt(w, k)
         IN  IF m = <<>>
             THEN MatchOffsets(w, k + 1)
             ELSE {k} \cup MatchOffsets(w, k + Len(m))

\* the offsets where \bWHERE\b matches
WhereOffsets(s) == {k \in 0..Len(s) : WholeWordAt(s, k, kwWHERE)}

\* (?:\bGROUP BY\b|\bORDER BY\b|\bLIMIT\b|$) at offset k; without re.MULTILINE
\* $ matches at the end and before a newline that ends the string
ClauseEndAt(s, k) ==
    \/ WholeWordAt(s, k, kwGROUPBY)
    \/ WholeWordAt(s, k, kwORDERBY)
    \/ WholeWordAt(s, k, kwLIMIT)
    \/ k = Len(s)
    \/ k = Len(s) - 1 /\ s[Len(s)] = "\n"

\* where_match: whether the pattern matches, and start(1) and end(1) of the leftmost match, group 1 lazy
where_match(s) ==
    IF WhereOffsets(s) = {} THEN [found |-> FALSE, start |-> 0, end |-> 0]
    ELSE LET b == Min(WhereOffsets(s)) + Len(kwWHERE)
         IN  [found |-> TRUE, start |-> b,
              end |-> Min({k \in b..Len(s) : ClauseEndAt(s, k)})]

\* where_clause = " " + where_match.group(1).strip()
where_clause(s) ==
    LET m == where_match(s)
    IN  <<" ">> \o Strip(SubSeq(s, m.start + 1, m.end))

suggest_flipped_conditions(s) ==
    IF ~Contains(s, kwWHERE) THEN None
    ELSE IF ~where_match(s).found THEN None
    ELSE LET m == where_match(s)
             flipped_where == FlipFrom(where_clause(s), 0)
             before_where  == SubSeq(s, 1, m.start)
             after_where   == From(s, m.end)
         IN  before_where \o flipped_where \o after_where

(***************************************************************************)
(* The driver: psycopg's cursor and connection, not in autocommit mode     *)
(***************************************************************************)
\* the reply of cursor.execute(sql_command), given what the database answers:
\* answer.ok says whether the statement runs, answer.description is the
\* cursor.description of its result (NoDescription when it returns no rows).
\*   cursor None            -> AttributeError, raised by the attribute access
\*   cursor/connection shut -> psycopg.Error
\*   aborted transaction    -> psycopg.Error until the next rollback
\*   statement fails        -> psycopg.Error, and the transaction is aborted
\*   statement runs         -> a transaction is open, description is set
CursorExecute(answer) ==
    IF cursor = "None"
    THEN [result |-> "AttributeError", txn |-> txn, description |-> description]
    ELSE IF cursor = "closed" \/ connection # "open"
    THEN [result |-> "Error", txn |-> txn, description |-> description]
    ELSE IF txn = "inerror" \/ ~answer.ok
    THEN [result |-> "Error", txn |-> "inerror", description |-> NoDescription]
    ELSE [result |-> "ok", txn |-> "intrans", description |-> answer.description]

(***************************************************************************)
(* suggest_aggregate_query                                                 *)
(***************************************************************************)
\* numeric_types with the OID of int4 left out
numeric_types_without_int4 == {20, 21, 700, 701, 1700, 1114}

numeric_types == {23, 20, 21, 700, 701, 1700, 1114}

\* the number of \s characters of s from offset k on
RECURSIVE SpaceRun(_, _)
SpaceRun(s, k) ==
    IF k < Len(s) /\ IsSpace(s[k + 1]) THEN 1 + SpaceRun(s, k + 1) ELSE 0

\* \s+FROM at offset e
SpacesThenFrom(s, e) == \E r \in 1..SpaceRun(s, e) : KeywordAt(s, e + r, kwFROM)

\* the offsets at which \s+FROM matches
FromOffsets(s) == {e \in 0..Len(s) : SpacesThenFrom(s, e)}

\* select_match: whether SELECT\s+(.*?)\s+FROM matches, and start(1) and end(1)
\* of the match re.search returns: the leftmost SELECT that can be completed,
\* the first \s+ as long as a match allows (it is greedy and gives characters
\* back only when nothing else matches), the group as short as possible (lazy)
select_match(s) ==
    LET ends == FromOffsets(s)
        starts == {i \in 0..Len(s) :
                     /\ KeywordAt(s, i, kwSELECT)
                     /\ SpaceRun(s, i + 6) >= 1
                     /\ \E e \in ends : e >= i + 7}
    IN  IF starts = {} THEN [found |-> FALSE, start |-> 0, end |-> 0]
        ELSE LET i == Min(starts)
                 bs == {b \in (i + 7)..(i + 6 + SpaceRun(s, i + 6)) :
                           \E e \in ends : e >= b}
                 b == CHOOSE x \in bs : \A y \in bs : y <= x
             IN  [found |-> TRUE, start |-> b, end |-> Min({e \in ends : e >= b})]

\* re.search(r'\b(COUNT|SUM|AVG|MIN|MAX|GROUP BY)\b', sql_command, re.IGNORECASE)
HasAggregateWord(s) ==
    \E k \in 0..Len(s) :
        \E w \in {kwCOUNT, kwSUM, kwAVG, kwMIN, kwMAX, kwGROUPBY} : WholeWordAt(s, k, w)

\* select_clause = select_match.group(1).strip()
select_clause(s) ==
    LET m == select_match(s) IN Strip(SubSeq(s, m.start + 1, m.end))

\* the checks before the try block without the one for aggregate words
PassesGatesAggregated(s) ==
    /\ StartsWith(Strip(s), kwSELECT)
    /\ select_match(s).found
    /\ select_clause(s) # <<"*">>

\* the checks that come before the try block: all passed
PassesGates(s) ==
    /\ StartsWith(Strip(s), kwSELECT)
    /\ select_match(s).found
    /\ ~HasAggregateWord(s)
    /\ select_clause(s) # <<"*">>

\* the names of the columns of d whose type is numeric, in the order of d
RECURSIVE column_info(_)
column_info(d) ==
    IF d = <<>> THEN <<>>
    ELSE IF Head(d)[2] \in numeric_types
         THEN <<Head(d)[1]>> \o column_info(Tail(d))
         ELSE column_info(Tail(d))

\* f"COUNT({col_name}) as count_{col_name}, SUM(...) as sum_..., AVG(...) as avg_..."
AggColumns(c) ==
    <<"C","O","U","N","T","(">> \o c \o <<")"," ","a","s"," ","c","o","u","n","t","_">> \o c
    \o <<","," ","S","U","M","(">> \o c \o <<")"," ","a","s"," ","s","u","m","_">> \o c
    \o <<","," ","A","V","G","(">> \o c \o <<")"," ","a","s"," ","a","v","g","_">> \o c

\* sep.join(ss)
RECURSIVE Join(_, _)
Join(ss, sep) ==
    IF ss = <<>> THEN <<>>
    ELSE IF Len(ss) = 1 THEN ss[1]
    ELSE ss[1] \o sep \o Join(Tail(ss), sep)

\* rest_of_query = sql_command[select_match.end(1):]
rest_of_query(s) == From(s, select_match(s).end)

\* f"SELECT {agg_select}{rest_of_query}"
AggregateStatement(s, d) ==
    LET cols == column_info(d)
    IN  kwSELECT \o <<" ">>
        \o Join([i \in 1..Len(cols) |-> AggColumns(cols[i])], <<","," ">>)
        \o rest_of_query(s)

\* suggest_aggregate_query(s) when the database answers `answer`: what it
\* returns or raises, the driver calls it makes and the state it leaves
SuggestAggregate(s, answer) ==
    IF ~PassesGates(s)
    THEN [raised |-> "none", value |-> None, calls |-> <<>>,
          txn |-> txn, description |-> description]
    ELSE LET r == CursorExecute(answer)
         IN  IF r.result = "AttributeError"
             THEN [raised |-> "AttributeError", value |-> None, calls |-> <<>>,
                   txn |-> r.txn, description |-> r.description]
             ELSE IF r.result = "Error" \/ r.description = NoDescription \/ r.description = <<>>
             THEN [raised |-> "none", value |-> None, calls |-> <<"cursor.execute">>,
                   txn |-> r.txn, description |-> r.description]
             ELSE [raised |-> "none",
                   value |-> IF column_info(r.description) = <<>> THEN None
                             ELSE AggregateStatement(s, r.description),
                   calls |-> <<"cursor.execute", "cursor.fetchall">>,
                   txn |-> r.txn, description |-> r.description]

(***************************************************************************)
(* The other methods of PostgreSQLManager                                  *)
(***************************************************************************)
\* the truth value Python gives a str or None
Truthy(v) == v # None /\ v # <<>>

\* create_connection: connect() succeeds and a cursor is opened, or connect()
\* raises psycopg.Error and nothing is assigned
CreateConnection(success) ==
    IF success
    THEN [connection |-> "open", cursor |-> "open", txn |-> "idle",
          description |-> NoDescription, value |-> TRUE]
    ELSE [connection |-> connection, cursor |-> cursor, txn |-> txn,
          description |-> description, value |-> FALSE]

\* close_connection that closes the connection before the cursor
CloseConnectionFirst ==
    [calls |-> (IF connection # "None" THEN <<"connection.close">> ELSE <<>>)
               \o (IF cursor # "None" THEN <<"cursor.close">> ELSE <<>>),
     cursor |-> IF cursor # "None" THEN "closed" ELSE cursor,
     connection |-> IF connection # "None" THEN "closed" ELSE connection,
     txn |-> IF connection # "None" THEN "idle" ELSE txn]

\* close_connection that closes the cursor and leaves the connection alone
CloseConnectionCursorOnly ==
    [calls |-> IF cursor # "None" THEN <<"cursor.close">> ELSE <<>>,
     cursor |-> IF cursor # "None" THEN "closed" ELSE cursor,
     connection |-> connection,
     txn |-> txn]

\* close_connection: a cursor or connection object is true whether open or
\* closed, only None is false; closing ends the transaction under way
CloseConnection ==
    [calls |-> (IF cursor # "None" THEN <<"cursor.close">> ELSE <<>>)
               \o (IF connection # "None" THEN <<"connection.close">> ELSE <<>>),
     cursor |-> IF cursor # "None" THEN "closed" ELSE cursor,
     connection |-> IF connection # "None" THEN "closed" ELSE connection,
     txn |-> IF connection # "None" THEN "idle" ELSE txn]

\* execute_sql(s) when the database answers `answer`
ExecuteSql(s, answer) ==
    IF connection = "None" \/ cursor = "None"
    THEN [raised |-> "none", calls |-> <<>>, txn |-> txn, description |-> description]
    ELSE LET r == CursorExecute(answer)
         IN  IF r.result = "ok"
             THEN IF r.description # NoDescription /\ r.description # <<>>
                  THEN [raised |-> "none", calls |-> <<"cursor.execute", "cursor.fetchall">>,
                        txn |-> r.txn, description |-> r.description]
                  ELSE [raised |-> "none", calls |-> <<"cursor.execute", "connection.commit">>,
                        txn |-> "idle", description |-> r.description]
             ELSE \* except Error: rollback(), which raises on a closed connection
                  IF connection = "closed"
                  THEN [raised |-> "Error", calls |-> <<"cursor.execute", "connection.rollback">>,
                        txn |-> r.txn, description |-> r.description]
                  ELSE [raised |-> "none", calls |-> <<"cursor.execute", "connection.rollback">>,
                        txn |-> "idle", description |-> r.description]

\* the suggestions list of print_query_suggestions, built flipped query first
SuggestionsFlippedFirst(agg, flipped) ==
    (IF Truthy(flipped) THEN << <<"Flipped Conditions", flipped>> >> ELSE <<>>)
    \o (IF Truthy(agg) THEN << <<"Aggregate Query", agg>> >> ELSE <<>>)

\* the suggestions list of print_query_suggestions: title and statement
Suggestions(agg, flipped) ==
    (IF Truthy(agg) THEN << <<"Aggregate Query", agg>> >> ELSE <<>>)
    \o (IF Truthy(flipped) THEN << <<"Flipped Conditions", flipped>> >> ELSE <<>>)

\* print_query_suggestions(s) when the database answers `answer` to the probe;
\* an exception of suggest_aggregate_query leaves the method at once
PrintQuerySuggestions(s, answer) ==
    The({IF a.raised # "none"
         THEN [raised |-> a.raised, agg_query |-> None, flipped_query |-> None,
               suggestions |-> <<>>, calls |-> a.calls, txn |-> a.txn,
               description |-> a.description]
         ELSE [raised |-> "none", agg_query |-> a.value, flipped_query |-> f,
               suggestions |-> Suggestions(a.value, f), calls |-> a.calls,
               txn |-> a.txn, description |-> a.description] :
            a \in {SuggestAggregate(s, answer)}, f \in {suggest_flipped_conditions(s)}})

(***************************************************************************)
(* The statements suggest_flipped_conditions is tried on                   *)
(***************************************************************************)
MaxBodyLen == 3

BodyChars == {" ", "x", ">", "<", "=", "!"}

Bodies == UNION {[1..n -> BodyChars] : n \in 0..MaxBodyLen}

FlipPrefixes == { <<>>, <<"x">> }

FlipKeywords == { kwWHERE, <<"w","h","e","r","e">> }

FlipTails ==
    { <<>>,
      <<"\n">>,
      <<"O","R","D","E","R"," ","B","Y"," ","x">>,
      <<"L","I","M","I","T"," ","1">> }

ExampleWhere ==
    <<"S","E","L","E","C","T"," ","*"," ","F","R","O","M"," ","t"," ",
      "W","H","E","R","E"," ","x"," ",">","="," ","5"," ","A","N","D"," ",
      "y"," ","!","="," ","3"," ","O","R","D","E","R"," ","B","Y"," ","x">>

ExampleWhereFlipped ==
    <<"S","E","L","E","C","T"," ","*"," ","F","R","O","M"," ","t"," ",
      "W","H","E","R","E"," ","x"," ","<"," ","5"," ","A","N","D"," ",
      "y"," ","="," ","3"," ","O","R","D","E","R"," ","B","Y"," ","x">>

FlipStatements ==
    {p \o k \o b \o t : p \in FlipPrefixes, k \in FlipKeywords,
                        b \in Bodies, t \in FlipTails}
    \cup { ExampleWhere,
           <<"S","E","L","E","C","T"," ","a"," ","F","R","O","M"," ","t">>,
           <<"a"," ","W","H","E","R","E"," ","x","=","1"," ",
             "G","R","O","U","P"," ","B","Y"," ","x">> }

InitFlip ==
    /\ sql_command \in FlipStatements
    /\ pc = "flip_call"
    /\ connection = "None"
    /\ cursor = "None"
    /\ txn = "idle"
    /\ description = NoDescription
    /\ agg_query = None
    /\ flipped_query = None
    /\ suggestions = <<>>
    /\ raised = "none"
    /\ last = "init"
    /\ log = <<>>
    /\ op = <<>>
    /\ once = <<>>
    /\ twice = <<>>
    /\ closes = 0

\* a call of suggest_flipped_conditions(sql_command)
SuggestFlipped ==
    /\ pc = "flip_call"
    /\ flipped_query' = suggest_flipped_conditions(sql_command)
    /\ last' = "suggest_flipped_conditions"
    /\ pc' = "flip_returned"
    /\ UNCHANGED <<connection, cursor, txn, description, sql_command, agg_query,
                   suggestions, raised, log, op, once, twice, closes>>

\* one of the calls re.sub makes of flip_operator, on the match at offset k
FlipOperatorCall ==
    /\ pc = "flip_returned"
    /\ flipped_query # None
    /\ \E k \in MatchOffsets(where_clause(sql_command), 0) :
          /\ op' = OperatorAt(where_clause(sql_command), k)
          /\ once' = flip_operator(OperatorAt(where_clause(sql_command), k))
    /\ pc' = "flip_once"
    /\ UNCHANGED <<connection, cursor, txn, description, sql_command, agg_query,
                   flipped_query, suggestions, raised, last, log, twice, closes>>

\* flip_operator applied to what it returned
FlipOperatorAgain ==
    /\ pc = "flip_once"
    /\ twice' = flip_operator(once)
    /\ pc' = "flip_twice"
    /\ UNCHANGED <<connection, cursor, txn, description, sql_command, agg_query,
                   flipped_query, suggestions, raised, last, log, op, once, closes>>

NextFlip == SuggestFlipped \/ FlipOperatorCall \/ FlipOperatorAgain

SpecFlip == InitFlip /\ [][NextFlip]_vars

(***************************************************************************)
(* Claims about suggest_flipped_conditions                                 *)
(***************************************************************************)
FlipReturned == pc \in {"flip_returned", "flip_once", "flip_twice"}

\* the characters of s that belong to no comparison operator
RECURSIVE NonOperator(_)
NonOperator(s) ==
    IF s = <<>> THEN <<>>
    ELSE IF Head(s) \in {">", "<", "=", "!"} THEN NonOperator(Tail(s))
    ELSE <<Head(s)>> \o NonOperator(Tail(s))

\* C2: for a statement with a whole-word WHERE the output keeps the text up to and
\* including WHERE, every non-operator character of the clause body (the white
\* space before GROUP BY / ORDER BY / LIMIT too) and all text from the clause
\* boundary on; the example statement yields the example result.
C2FrameClaimed ==
    (FlipReturned /\ WhereOffsets(sql_command) # {}) =>
        LET m == where_match(sql_command)
            n == Len(sql_command) - m.end
        IN  /\ flipped_query # None
            /\ Len(flipped_query) >= m.start + n
            /\ SubSeq(flipped_query, 1, m.start) = SubSeq(sql_command, 1, m.start)
            /\ From(flipped_query, Len(flipped_query) - n) = From(sql_command, m.end)
            /\ NonOperator(flipped_query) = NonOperator(sql_command)
            /\ (sql_command = ExampleWhere => flipped_query = ExampleWhereFlipped)

\* C3 as claimed: flip_operator applied twice returns the operator it started from.
C3InvolutionClaimed == (pc = "flip_twice") => twice = op

\* C3 as amended: flip_operator applied twice returns the operator it started
\* from for >=, <=, <>, >, < and =, and returns <> for !=.
C3InvolutionAmended ==
    (pc = "flip_twice") =>
        /\ op \in Range(OperatorPattern)
        /\ (op # <<"!","=">> => twice = op)
        /\ (op = <<"!","=">> => twice = <<"<",">">>)

C3Witness == pc = "flip_twice" /\ op = <<">","=">> /\ twice = <<">","=">>

\* the table of the claim, written out
ClaimedFlip(o) ==
    CASE o = <<">","=">> -> <<"<">>
      [] o = <<"<","=">> -> <<">">>
      [] o = <<"<",">">> -> <<"=">>
      [] o = <<"!","=">> -> <<"=">>
      [] o = <<">">>     -> <<"<","=">>
      [] o = <<"<">>     -> <<">","=">>
      [] o = <<"=">>     -> <<"<",">">>
      [] OTHER           -> o

TwoCharAt(w, k) ==
    /\ k + 2 <= Len(w)
    /\ SubSeq(w, k + 1, k + 2) \in { <<">","=">>, <<"<","=">>, <<"<",">">>, <<"!","=">> }

\* the offsets at which a token starts when w is read left to right and a
\* two-character operator is taken whole wherever one starts
TokenStarts(w) ==
    LET ts[k \in 0..Len(w)] ==
            \/ k = 0
            \/ k >= 1 /\ ts[k - 1] /\ ~TwoCharAt(w, k - 1)
            \/ k >= 2 /\ ts[k - 2] /\ TwoCharAt(w, k - 2)
    IN  {k \in 0..(Len(w) - 1) : ts[k]}

\* w with every token replaced by its entry in the table of the claim
ExpectedFlip(w) ==
    LET starts == TokenStarts(w)
        piece(k) == IF k \notin starts THEN <<>>
                    ELSE IF TwoCharAt(w, k) THEN ClaimedFlip(SubSeq(w, k + 1, k + 2))
                    ELSE ClaimedFlip(<<w[k + 1]>>)
    IN  Flatten([i \in 1..Len(w) |-> piece(i - 1)])

\* the clause body as it stands in the output
FlippedBody ==
    LET m == where_match(sql_command)
    IN  SubSeq(flipped_query, m.start + 1,
               Len(flipped_query) - (Len(sql_command) - m.end))

\* C4: in the WHERE clause body every comparison operator is replaced, left to
\* right, without overlap, the two-character operator preferred at each offset,
\* by the fixed table; nothing else in the body becomes an operator.
C4EveryOperatorFlipped ==
    (FlipReturned /\ flipped_query # None) =>
        LET m == where_match(sql_command)
            body == SubSeq(sql_command, m.start + 1, m.end)
        IN  Strip(FlippedBody) = ExpectedFlip(Strip(body))

C4Witness ==
    /\ pc = "flip_returned"
    /\ sql_command = kwWHERE \o <<"<",">","=">>
    /\ flipped_query = kwWHERE \o <<" ","=","<",">">>

(***************************************************************************)
(* The statements suggest_aggregate_query is tried on, and what the        *)
(* database may answer                                                     *)
(***************************************************************************)
MaxCols == 2
MaxDesc == 2

Leads == { <<>>, <<" ">> }

Heads ==
    { <<"S","E","L","E","C","T"," ">>,
      <<"s","e","l","e","c","t"," ">>,
      <<"S","E","L","E","C","T">>,
      <<"U","P","D","A","T","E"," ">> }

Cols == { <<"a">>, <<"b">>, <<"*">>, <<"M","A","X","(","a",")">> }

Projections ==
    {Join(cs, <<","," ">>) : cs \in UNION {[1..n -> Cols] : n \in 0..MaxCols}}

Tails ==
    { <<>>,
      <<" ","F","R","O","M"," ","t">>,
      <<"\n","f","r","o","m"," ","t">>,
      <<" ","F","R","O","M"," ","t"," ","W","H","E","R","E"," ","a"," ",">","="," ","1">>,
      <<" ","F","R","O","M"," ","t"," ","G","R","O","U","P"," ","B","Y"," ","a">> }

AggStatements ==
    {l \o h \o p \o t : l \in Leads, h \in Heads, p \in Projections, t \in Tails}

\* the name of the i-th column of a result: a, b, c, ...
ColumnName(i) == <<LowerCase[i]>>

\* type OIDs a column may have: int4, numeric, text
TypeTags == {23, 1700, 25}

\* the descriptions of results of up to MaxDesc columns
Descriptions ==
    UNION {{[i \in 1..n |-> <<ColumnName(i), tags[i]>>] : tags \in [1..n -> TypeTags]} :
              n \in 0..MaxDesc}

\* what the database may answer to a statement
Refusal == [ok |-> FALSE, description |-> NoDescription]

Answers ==
    {Refusal} \cup {[ok |-> TRUE, description |-> d] : d \in Descriptions \cup {NoDescription}}

\* the answers the probe of suggest_aggregate_query(s) may get: the database
\* is asked only when s passes the gates
ProbeAnswers(s, answers) == IF PassesGates(s) THEN answers ELSE {Refusal}

InitAgg ==
    /\ sql_command \in AggStatements
    /\ pc = "agg_call"
    /\ connection = "open"
    /\ cursor = "open"
    /\ txn = "idle"
    /\ description = NoDescription
    /\ agg_query = None
    /\ flipped_query = None
    /\ suggestions = <<>>
    /\ raised = "none"
    /\ last = "create_connection"
    /\ log = <<>>
    /\ op = <<>>
    /\ once = <<>>
    /\ twice = <<>>
    /\ closes = 0

\* a call of suggest_aggregate_query(sql_command) on a connected manager
AggCall ==
    /\ pc = "agg_call"
    /\ \E answer \in ProbeAnswers(sql_command, Answers) :
          \E r \in {SuggestAggregate(sql_command, answer)} :
              /\ agg_query' = r.value
              /\ raised' = r.raised
              /\ log' = r.calls
              /\ txn' = r.txn
              /\ description' = r.description
    /\ last' = "suggest_aggregate_query"
    /\ pc' = "agg_returned"
    /\ UNCHANGED <<connection, cursor, sql_command, flipped_query, suggestions,
                   op, once, twice, closes>>

NextAgg == AggCall

SpecAgg == InitAgg /\ [][NextAgg]_vars

(***************************************************************************)
(* Claim about the rewrite of suggest_aggregate_query                      *)
(***************************************************************************)
ExampleSelect ==
    <<"S","E","L","E","C","T"," ","a",","," ","b"," ","F","R","O","M"," ","t">>

ExampleAggregateUpperAS ==
    <<"S","E","L","E","C","T"," ","C","O","U","N","T","(","a",")"," ","A","S"," ",
      "c","o","u","n","t","_","a",","," ","S","U","M","(","a",")"," ","A","S"," ",
      "s","u","m","_","a",","," ","A","V","G","(","a",")"," ","A","S"," ",
      "a","v","g","_","a"," ","F","R","O","M"," ","t">>

ExampleAggregateLowerAs ==
    <<"S","E","L","E","C","T"," ","C","O","U","N","T","(","a",")"," ","a","s"," ",
      "c","o","u","n","t","_","a",","," ","S","U","M","(","a",")"," ","a","s"," ",
      "s","u","m","_","a",","," ","A","V","G","(","a",")"," ","a","s"," ",
      "a","v","g","_","a"," ","F","R","O","M"," ","t">>

ExampleDescription == << <<<<"a">>, 23>>, <<<<"b">>, 25>> >>

\* the descriptors of d whose type tag is one of the seven of the claim
NumericOf(d) == SelectSeq(d, LAMBDA c : c[2] \in {23, 20, 21, 700, 701, 1700, 1114})

\* the groups of the claim for the descriptors ds, joined by ", "; kw is AS or as
RECURSIVE ClaimedGroups(_, _)
ClaimedGroups(ds, kw) ==
    IF ds = <<>> THEN <<>>
    ELSE LET c == ds[1][1]
             g == <<"C","O","U","N","T","(">> \o c \o <<")"," ">> \o kw
                  \o <<" ","c","o","u","n","t","_">> \o c
                  \o <<","," ","S","U","M","(">> \o c \o <<")"," ">> \o kw
                  \o <<" ","s","u","m","_">> \o c
                  \o <<","," ","A","V","G","(">> \o c \o <<")"," ">> \o kw
                  \o <<" ","a","v","g","_">> \o c
         IN  IF Len(ds) = 1 THEN g ELSE g \o <<","," ">> \o ClaimedGroups(Tail(ds), kw)

\* the probe of a statement that passed the gates returned column descriptors
ProbeReturnedColumns ==
    /\ pc = "agg_returned"
    /\ Len(log) >= 1
    /\ description # NoDescription
    /\ description # <<>>

\* C1 as claimed: the result is the input with exactly its projection list
\* replaced by the groups `COUNT(c) AS count_c, SUM(c) AS sum_c, AVG(c) AS avg_c`
\* of the numeric descriptors, in order, joined by ", "; the example yields
\* the example result.
C1RewriteClaimed ==
    ProbeReturnedColumns =>
        LET m == select_match(sql_command)
        IN  /\ agg_query = SubSeq(sql_command, 1, m.start)
                           \o ClaimedGroups(NumericOf(description), <<"A","S">>)
                           \o From(sql_command, m.end)
            /\ (sql_command = ExampleSelect /\ description = ExampleDescription
                    => agg_query = ExampleAggregateUpperAS)

\* C1 as amended: when at least one descriptor is numeric the result is
\* `SELECT `, then the groups `COUNT(c) as count_c, SUM(c) as sum_c, AVG(c) as
\* avg_c` (lower-case as) of the numeric descriptors in order, joined by ", ",
\* then the input from the end of its projection list on (the white space
\* before FROM and all that follows); with no numeric descriptor it is None.
C1RewriteAmended ==
    ProbeReturnedColumns =>
        LET m == select_match(sql_command)
            rest == From(sql_command, m.end)
        IN  /\ NumericOf(description) = <<>> => agg_query = None
            /\ NumericOf(description) # <<>> =>
                  /\ agg_query = <<"S","E","L","E","C","T"," ">>
                                 \o ClaimedGroups(NumericOf(description), <<"a","s">>)
                                 \o rest
                  /\ rest # <<>> /\ IsSpace(rest[1])
                  /\ KeywordAt(LStrip(rest), 0, kwFROM)
            /\ (sql_command = ExampleSelect /\ description = ExampleDescription
                    => agg_query = ExampleAggregateLowerAs)

C1Witness ==
    /\ pc = "agg_returned"
    /\ sql_command = ExampleSelect
    /\ description = ExampleDescription
    /\ agg_query = ExampleAggregateLowerAs

(***************************************************************************)
(* main: the read loop                                                     *)
(***************************************************************************)
\* what the user may type at the SQL> prompt
Lines ==
    AggStatements
    \cup { <<>>, <<" ">>, <<"q","u","i","t">>, <<"e","x","i","t">>,
           <<" ","E","X","I","T"," ">>, <<"q","u","i","t",";">> }

\* what the database may answer in a session: a failure, a result without
\* rows, or rows of at most one column
SessionAnswers ==
    {Refusal}
    \cup {[ok |-> TRUE, description |-> d] :
             d \in {NoDescription} \cup {x \in Descriptions : Len(x) <= 1}}

Count(seq, x) == Cardinality({i \in DOMAIN seq : seq[i] = x})

Init ==
    /\ pc = "connect"
    /\ connection = "None"
    /\ cursor = "None"
    /\ txn = "idle"
    /\ description = NoDescription
    /\ sql_command = <<>>
    /\ agg_query = None
    /\ flipped_query = None
    /\ suggestions = <<>>
    /\ raised = "none"
    /\ last = "init"
    /\ log = <<>>
    /\ op = <<>>
    /\ once = <<>>
    /\ twice = <<>>
    /\ closes = 0

\* db.create_connection(...); main returns when it fails
MainConnect ==
    /\ pc = "connect"
    /\ \E success \in BOOLEAN :
          \E r \in {CreateConnection(success)} :
              /\ connection' = r.connection
              /\ cursor' = r.cursor
              /\ txn' = r.txn
              /\ description' = r.description
              /\ pc' = IF r.value THEN "prompt" ELSE "returned"
    /\ last' = "create_connection"
    /\ closes' = 0
    /\ UNCHANGED <<sql_command, agg_query, flipped_query, suggestions, raised, log,
                   op, once, twice>>

\* while True: the next turn of the loop; what the last turn computed (the
\* command, the suggestions, the record of its driver calls) is dead
MainLoop ==
    /\ pc = "loop"
    /\ pc' = "prompt"
    /\ sql_command' = <<>>
    /\ agg_query' = None
    /\ flipped_query' = None
    /\ suggestions' = <<>>
    /\ raised' = "none"
    /\ log' = <<>>
    /\ UNCHANGED <<connection, cursor, txn, description, last, op, once, twice, closes>>

\* command = input("\nSQL> ").strip(), and the two tests on it
MainRead ==
    /\ pc = "prompt"
    /\ \E line \in Lines :
          /\ sql_command' = Strip(line)
          /\ pc' = IF Lower(Strip(line)) \in { <<"q","u","i","t">>, <<"e","x","i","t">> }
                   THEN "close"
                   ELSE IF Strip(line) # <<>> THEN "execute" ELSE "loop"
    /\ last' = "input"
    /\ UNCHANGED <<connection, cursor, txn, description, agg_query, flipped_query,
                   suggestions, raised, log, op, once, twice, closes>>

\* input() raises EOFError or KeyboardInterrupt: the loop breaks
MainReadRaises ==
    /\ pc = "prompt"
    /\ \E e \in {"EOFError", "KeyboardInterrupt"} : raised' = e
    /\ last' = "input"
    /\ pc' = "close"
    /\ UNCHANGED <<connection, cursor, txn, description, sql_command, agg_query,
                   flipped_query, suggestions, log, op, once, twice, closes>>

\* db.execute_sql(command)
MainExecute ==
    /\ pc = "execute"
    /\ \E answer \in SessionAnswers :
          \E r \in {ExecuteSql(sql_command, answer)} :
              /\ raised' = r.raised
              /\ log' = log \o r.calls
              /\ txn' = r.txn
              /\ description' = r.description
    /\ last' = "execute_sql"
    /\ pc' = "suggest"
    /\ UNCHANGED <<connection, cursor, sql_command, agg_query, flipped_query,
                   suggestions, op, once, twice, closes>>

\* KeyboardInterrupt while execute_sql runs: before the statement is sent, or
\* with the statement sent and the transaction in any of its states
MainExecuteInterrupted ==
    /\ pc = "execute"
    /\ \E sent \in BOOLEAN :
          /\ log' = IF sent THEN log \o <<"cursor.execute">> ELSE log
          /\ \E t \in (IF sent THEN {"idle", "intrans", "inerror"} ELSE {txn}) : txn' = t
    /\ raised' = "KeyboardInterrupt"
    /\ last' = "execute_sql"
    /\ pc' = "close"
    /\ UNCHANGED <<connection, cursor, description, sql_command, agg_query,
                   flipped_query, suggestions, op, once, twice, closes>>

\* db.print_query_suggestions(command)
MainSuggest ==
    /\ pc = "suggest"
    /\ \E answer \in ProbeAnswers(sql_command, SessionAnswers) :
          \E r \in {PrintQuerySuggestions(sql_command, answer)} :
              /\ raised' = r.raised
              /\ agg_query' = r.agg_query
              /\ flipped_query' = r.flipped_query
              /\ suggestions' = r.suggestions
              /\ log' = log \o r.calls
              /\ txn' = r.txn
              /\ description' = r.description
    /\ last' = "print_query_suggestions"
    /\ pc' = "loop"
    /\ UNCHANGED <<connection, cursor, sql_command, op, once, twice, closes>>

\* KeyboardInterrupt while print_query_suggestions runs: outside the probe, or
\* with the probe sent (no commit or rollback follows a probe)
MainSuggestInterrupted ==
    /\ pc = "suggest"
    /\ \E sent \in (IF PassesGates(sql_command) THEN BOOLEAN ELSE {FALSE}) :
          /\ log' = IF sent THEN log \o <<"cursor.execute">> ELSE log
          /\ \E t \in (IF sent THEN {"intrans", "inerror"} ELSE {txn}) : txn' = t
    /\ raised' = "KeyboardInterrupt"
    /\ last' = "print_query_suggestions"
    /\ pc' = "close"
    /\ UNCHANGED <<connection, cursor, description, sql_command, agg_query,
                   flipped_query, suggestions, op, once, twice, closes>>

\* db.close_connection() and print("Goodbye!")
MainClose ==
    /\ pc = "close"
    /\ \E r \in {CloseConnection} :
           /\ cursor' = r.cursor
           /\ connection' = r.connection
           /\ txn' = r.txn
           /\ log' = log \o r.calls
    /\ last' = "close_connection"
    /\ closes' = closes + 1
    /\ pc' = "goodbye"
    /\ UNCHANGED <<description, sql_command, agg_query, flipped_query, suggestions,
                   raised, op, once, twice>>

Next ==
    \/ MainConnect
    \/ MainLoop
    \/ MainRead
    \/ MainReadRaises
    \/ MainExecute
    \/ MainExecuteInterrupted
    \/ MainSuggest
    \/ MainSuggestInterrupted
    \/ MainClose

Spec == Init /\ [][Next]_vars

\* once the loop is left, close_connection and the farewell follow
FairSpec == Spec /\ WF_vars(MainClose)

(***************************************************************************)
(* Claims about the read loop                                              *)
(***************************************************************************)
\* print_query_suggestions(sql_command) has returned to the loop; log holds the
\* driver calls of this turn: those of execute_sql, then those of the probe
Suggested == pc = "loop" /\ last = "print_query_suggestions"

Executions == Count(log, "cursor.execute")

\* the trimmed statement begins with SELECT, whatever the case
BeginsWithSelect(s) == KeywordAt(LStrip(s), 0, kwSELECT)

\* a FROM follows the SELECT: SELECT, white space, any text, white space, FROM
FromFollowsSelect(s) ==
    \E i \in 0..Len(s), j \in 0..Len(s) :
        /\ KeywordAt(s, i, kwSELECT)
        /\ KeywordAt(s, j, kwFROM)
        /\ j >= i + 8
        /\ IsSpace(s[i + 7])
        /\ IsSpace(s[j])

\* COUNT, SUM, AVG, MIN, MAX or GROUP BY stands in s as a whole word
NamesAggregate(s) ==
    \E w \in {kwCOUNT, kwSUM, kwAVG, kwMIN, kwMAX, kwGROUPBY} :
        \E k \in 0..(Len(s) - Len(w)) :
            /\ KeywordAt(s, k, w)
            /\ (k = 0 \/ ~IsWord(s[k]))
            /\ (k + Len(w) = Len(s) \/ ~IsWord(s[k + Len(w) + 1]))

\* the projection list is exactly `*`
StarProjection(s) == FromFollowsSelect(s) /\ select_clause(s) = <<"*">>

GateFails(s) ==
    \/ ~BeginsWithSelect(s)
    \/ ~FromFollowsSelect(s)
    \/ NamesAggregate(s)
    \/ StarProjection(s)

\* C5: suggest_aggregate_query fails closed.  When a gate fails (the trimmed
\* statement does not begin with SELECT, no FROM follows the SELECT, an
\* aggregate word stands in it, or the projection list is `*`) it returns None
\* and the statement is not executed again: the turn has the one execution of
\* execute_sql.  A second execution is only ever issued for a statement that
\* begins with SELECT, and a statement that does not is executed exactly once.
C5FailsClosed ==
    /\ (Suggested /\ GateFails(sql_command))
           => agg_query = None /\ Executions = 1
    /\ Executions >= 2 => BeginsWithSelect(sql_command)
    /\ (Suggested /\ ~BeginsWithSelect(sql_command)) => Executions = 1
    /\ Executions <= 2

\* a SELECT that fails a gate other than the first went through the loop, and
\* so did a statement that is no SELECT
C5Witness ==
    /\ Suggested
    /\ BeginsWithSelect(sql_command)
    /\ NamesAggregate(sql_command)
    /\ FromFollowsSelect(sql_command)
    /\ agg_query = None
    /\ Executions = 1

\* the statement satisfies the aggregate suggester: it passes the gates and
\* the probe returned at least one numeric column
SatisfiesAggregate ==
    /\ ~GateFails(sql_command)
    /\ Executions = 2
    /\ NumericOf(description) # <<>>

\* the statement satisfies the condition flipper: it has a WHERE, as a whole word
SatisfiesFlipper ==
    \E k \in 0..Len(sql_command) : WholeWordAt(sql_command, k, kwWHERE)

\* C6: print_query_suggestions gives the statement to the aggregate suggester
\* and then to the condition flipper, each on the statement as typed, and lists
\* what they return in that order: "Aggregate Query" then "Flipped Conditions"
\* when both are satisfied, the one that is when one is, nothing when none is.
C6FixedOrder ==
    Suggested =>
        suggestions =
            (IF SatisfiesAggregate
             THEN << <<"Aggregate Query", AggregateStatement(sql_command, description)>> >>
             ELSE <<>>)
            \o (IF SatisfiesFlipper
                THEN << <<"Flipped Conditions", suggest_flipped_conditions(sql_command)>> >>
                ELSE <<>>)

C6Witness ==
    /\ Suggested
    /\ SatisfiesAggregate
    /\ SatisfiesFlipper
    /\ Len(suggestions) = 2
    /\ suggestions[1][1] = "Aggregate Query"
    /\ suggestions[2][1] = "Flipped Conditions"
    /\ suggestions[2][2] # sql_command

\* C9 as claimed: a failed probe has no lasting effect on the session.  Once
\* print_query_suggestions has returned, the transaction of the connection is
\* not in the aborted state, so that the next statement of execute_sql is
\* evaluated by the database.
C9ProbeLeavesNoAbort ==
    pc \in {"loop", "prompt", "execute"} => txn # "inerror"

\* the loop is running or has just been left: create_connection succeeded and
\* close_connection has not been called
BeforeRelease == pc \in {"loop", "prompt", "execute", "suggest", "close"}

\* the last two driver calls are cursor.close and connection.close, in that
\* order, and none of the calls before them is a close
ReleasedOnceAtTheEnd ==
    /\ Len(log) >= 2
    /\ log[Len(log) - 1] = "cursor.close"
    /\ log[Len(log)] = "connection.close"
    /\ \A i \in 1..(Len(log) - 2) : log[i] \notin {"cursor.close", "connection.close"}

\* C10: in a run of main in which create_connection succeeded, the cursor and
\* the connection stay open while the loop runs, and whichever way the loop is
\* left (quit or exit, end of input, an interrupt at the prompt or with a
\* statement or a probe in flight) close_connection then runs, exactly once,
\* before the farewell; it closes the cursor and then the connection, and no
\* statement is executed after it.
C10ReleasedOnce ==
    /\ [](BeforeRelease =>
              /\ cursor = "open" /\ connection = "open" /\ closes = 0
              /\ Count(log, "cursor.close") = 0
              /\ Count(log, "connection.close") = 0)
    /\ [](pc = "goodbye" =>
              /\ cursor = "closed" /\ connection = "closed" /\ closes = 1
              /\ ReleasedOnceAtTheEnd)
    /\ [][pc = "goodbye" => pc' = "goodbye" /\ log' = log]_vars
    /\ (pc = "close") ~> (pc = "goodbye")

\* the farewell after an interrupt that came with a probe in flight
C10Witness ==
    /\ pc = "goodbye"
    /\ raised = "KeyboardInterrupt"
    /\ log = <<"cursor.execute", "cursor.fetchall", "cursor.execute",
               "cursor.close", "connection.close">>

(***************************************************************************)
(* The class driven directly: its methods called in any order              *)
(***************************************************************************)
\* close_connection is called at most MaxCloses times in a row
MaxCloses == 2

ApiStatements ==
    { <<"S","E","L","E","C","T"," ","a"," ","F","R","O","M"," ","t"," ",
        "W","H","E","R","E"," ","a"," ",">","="," ","1">>,
      <<"S","E","L","E","C","T"," ","*"," ","F","R","O","M"," ","t">>,
      <<"U","P","D","A","T","E"," ","t"," ","S","E","T"," ","a"," ","="," ","1">> }

\* PostgreSQLManager()
InitApi ==
    /\ pc = "api"
    /\ connection = "None"
    /\ cursor = "None"
    /\ txn = "idle"
    /\ description = NoDescription
    /\ sql_command = <<>>
    /\ agg_query = None
    /\ flipped_query = None
    /\ suggestions = <<>>
    /\ raised = "none"
    /\ last = "init"
    /\ log = <<>>
    /\ op = <<>>
    /\ once = <<>>
    /\ twice = <<>>
    /\ closes = 0

\* each call starts from a clean record: log holds the driver calls of the
\* call, the results of the suggesters are those of the call
ApiCreateConnection ==
    /\ pc = "api"
    /\ \E success \in BOOLEAN :
          \E r \in {CreateConnection(success)} :
              /\ connection' = r.connection
              /\ cursor' = r.cursor
              /\ txn' = r.txn
              /\ description' = r.description
              /\ closes' = IF r.value THEN 0 ELSE closes
    /\ last' = "create_connection"
    /\ raised' = "none"
    /\ log' = <<>>
    /\ sql_command' = <<>>
    /\ agg_query' = None
    /\ flipped_query' = None
    /\ suggestions' = <<>>
    /\ UNCHANGED <<pc, op, once, twice>>

ApiCloseConnection ==
    /\ pc = "api"
    /\ closes < MaxCloses
    /\ closes' = closes + 1
    /\ \E r \in {CloseConnection} :
           /\ cursor' = r.cursor
           /\ connection' = r.connection
           /\ txn' = r.txn
           /\ log' = r.calls
    /\ last' = "close_connection"
    /\ raised' = "none"
    /\ sql_command' = <<>>
    /\ agg_query' = None
    /\ flipped_query' = None
    /\ suggestions' = <<>>
    /\ UNCHANGED <<pc, description, op, once, twice>>

ApiExecuteSql ==
    /\ pc = "api"
    /\ \E s \in ApiStatements, answer \in SessionAnswers :
          \E r \in {ExecuteSql(s, answer)} :
              /\ sql_command' = s
              /\ raised' = r.raised
              /\ log' = r.calls
              /\ txn' = r.txn
              /\ description' = r.description
    /\ last' = "execute_sql"
    /\ agg_query' = None
    /\ flipped_query' = None
    /\ suggestions' = <<>>
    /\ UNCHANGED <<pc, connection, cursor, op, once, twice, closes>>

ApiSuggestAggregate ==
    /\ pc = "api"
    /\ \E s \in ApiStatements :
          \E answer \in ProbeAnswers(s, SessionAnswers) :
              \E r \in {SuggestAggregate(s, answer)} :
                  /\ sql_command' = s
                  /\ agg_query' = r.value
                  /\ raised' = r.raised
                  /\ log' = r.calls
                  /\ txn' = r.txn
                  /\ description' = r.description
    /\ last' = "suggest_aggregate_query"
    /\ flipped_query' = None
    /\ suggestions' = <<>>
    /\ UNCHANGED <<pc, connection, cursor, op, once, twice, closes>>

ApiSuggestFlipped ==
    /\ pc = "api"
    /\ \E s \in ApiStatements :
          /\ sql_command' = s
          /\ flipped_query' = suggest_flipped_conditions(s)
    /\ last' = "suggest_flipped_conditions"
    /\ raised' = "none"
    /\ log' = <<>>
    /\ agg_query' = None
    /\ suggestions' = <<>>
    /\ UNCHANGED <<pc, connection, cursor, txn, description, op, once, twice, closes>>

ApiPrintQuerySuggestions ==
    /\ pc = "api"
    /\ \E s \in ApiStatements :
          \E answer \in ProbeAnswers(s, SessionAnswers) :
              \E r \in {PrintQuerySuggestions(s, answer)} :
                  /\ sql_command' = s
                  /\ raised' = r.raised
                  /\ agg_query' = r.agg_query
                  /\ flipped_query' = r.flipped_query
                  /\ suggestions' = r.suggestions
                  /\ log' = r.calls
                  /\ txn' = r.txn
                  /\ description' = r.description
    /\ last' = "print_query_suggestions"
    /\ UNCHANGED <<pc, connection, cursor, op, once, twice, closes>>

NextApi ==
    \/ ApiCreateConnection
    \/ ApiCloseConnection
    \/ ApiExecuteSql
    \/ ApiSuggestAggregate
    \/ ApiSuggestFlipped
    \/ ApiPrintQuerySuggestions

SpecApi == InitApi /\ [][NextApi]_vars

(***************************************************************************)
(* Claims about the class driven directly                                  *)
(***************************************************************************)
\* C7 as claimed: the suggestion engine never raises.  In every state of the
\* manager (never connected, connected, closed) and for every statement,
\* suggest_aggregate_query, suggest_flipped_conditions and
\* print_query_suggestions return normally.
C7NeverRaises ==
    last \in {"suggest_aggregate_query", "suggest_flipped_conditions",
              "print_query_suggestions"}
        => raised = "none"

\* the state close_connection may change
Resources == <<cursor, connection, txn, description>>

\* C8 as claimed: close_connection closes the cursor, then the connection; it
\* is safe on a manager that never connected; and called again after a release
\* it closes nothing and changes no state.
C8SecondCallClosesNothing ==
    [][ApiCloseConnection =>
          /\ raised' = "none"
          /\ (cursor = "None" /\ connection = "None")
                => log' = <<>> /\ UNCHANGED Resources
          /\ (cursor = "open" /\ connection = "open")
                => /\ log' = <<"cursor.close", "connection.close">>
                   /\ cursor' = "closed" /\ connection' = "closed"
          /\ (cursor = "closed" /\ connection = "closed")
                => log' = <<>> /\ UNCHANGED Resources]_vars

\* C8 as amended: close_connection closes the cursor, then the connection; it
\* is safe on a manager that never connected, where it closes nothing; and
\* called again after a release it calls close on the closed cursor and on the
\* closed connection once more, in that order, which changes no state.
C8SecondCallClosesAgain ==
    [][ApiCloseConnection =>
          /\ raised' = "none"
          /\ (cursor = "None" /\ connection = "None")
                => log' = <<>> /\ UNCHANGED Resources
          /\ (cursor = "open" /\ connection = "open")
                => /\ log' = <<"cursor.close", "connection.close">>
                   /\ cursor' = "closed" /\ connection' = "closed"
          /\ (cursor = "closed" /\ connection = "closed")
                => /\ log' = <<"cursor.close", "connection.close">>
                   /\ UNCHANGED Resources]_vars

\* close_connection called a second time after a release
C8Witness ==
    /\ last = "close_connection"
    /\ closes = 2
    /\ cursor = "closed"
    /\ connection = "closed"
    /\ log = <<"cursor.close", "connection.close">>

====
